---- MODULE Spec2Model ----
(***************************************************************************)
(* Model of compress_images_50.py: a directory walker feeding each image   *)
(* file to compress_image_50_percent, which decodes, orientation-          *)
(* normalises, halves, re-encodes into a sibling temp file and renames the *)
(* temp file over the original.                                            *)
(*                                                                         *)
(* The filesystem is a function from the paths of the existing regular     *)
(* files to their content.  Directories are fixed (the program creates     *)
(* none).  compress_image_50_percent is split at its filesystem effects    *)
(* and its possible exceptions, so that the states "during" a call exist.  *)
(***************************************************************************)
EXTENDS Integers, Sequences, FiniteSets, TLC

(* ---- bounds ---- *)
MaxDim == 5        \* a.png is w x h with w, h in 1..MaxDim
MaxGifDim == 2     \* g.gif is s x s with s in 1..MaxGifDim
MaxRuns == 2       \* number of times the script is invoked in a row
MaxFaults == 2     \* number of encoder and rename failures the environment injects
MaxBigDim == 100   \* SpecRuns: the image is w x h with w in 1..MaxBigDim

VARIABLES
    fs,          \* path of each existing regular file |-> its content
    directory,   \* args.directory, resolved (a path)
    recursive,   \* args.recursive
    pc,          \* position of the process
    todo,        \* walk_images: directories reached but not yet listed
    listing,     \* walk_images: snapshot of the current directory, not yet yielded
    src,         \* compress_image_50_percent: its argument
    im,          \* compress_image_50_percent: im (after exif_transpose)
    im_resized,  \* compress_image_50_percent: im_resized
    tmp_path,    \* compress_image_50_percent: tmp_path
    count,       \* main: count
    stderr,      \* lines written to stderr by this process
    stdout,      \* lines written to stdout by this process
    exitCode,    \* exit status of the process, -1 while it runs
    runs,        \* number of invocations started so far
    attempted,   \* history: the paths handed to compress_image_50_percent in this run
    outcome,     \* history: how the current call left the try block
    fsRun,       \* history: fs when this run began
    fsCall,      \* history: fs when the current call began
    fsFirst,     \* history: fs before the first run
    faults       \* environment: the save and rename calls that have raised so far

vars == <<fs, directory, recursive, pc, todo, listing, src, im, im_resized,
          tmp_path, count, stderr, stdout, exitCode, runs, attempted, outcome,
          fsRun, fsCall, fsFirst, faults>>

(* ---- paths ---- *)
Path(d, s, n, e) == [dir |-> d, stem |-> s, n |-> n, ext |-> e]

RootDir == Path("", "root", 0, "")
SubDir == Path("root", "sub", 0, "")
MissingDir == Path("", "missing", 0, "")
DirPaths == {RootDir, SubDir}

FileA == Path("root", "a", 0, ".png")
FileG == Path("root", "g", 0, ".gif")
FileN == Path("root", "n", 0, ".txt")
FileC == Path("sub", "c", 0, ".JPG")
StaleTmp == Path("root", "tmp", 1, ".png")

NoPath == Path("", "", 0, "")

SUPPORTED_EXTS == {".jpg", ".jpeg", ".png", ".webp", ".tif", ".tiff", ".bmp", ".gif"}

\* str.lower() on the extensions that occur
Lower(e) == IF e = ".JPG" THEN ".jpg" ELSE e

exists(p) == p \in DirPaths \/ p \in DOMAIN fs
is_dir(p) == p \in DirPaths
is_file(p) == p \in DOMAIN fs

is_image_file(p) == is_file(p) /\ Lower(p.ext) \in SUPPORTED_EXTS

\* the entries of directory d: its regular files and its subdirectories
Children(d) == {p \in DOMAIN fs : p.dir = d.stem} \cup {q \in DirPaths : q.dir = d.stem}

(* ---- file contents ---- *)
\* kind: "image" a complete encoded image, "corrupt" undecodable bytes,
\* "empty" the 0-byte placeholder of NamedTemporaryFile, "partial" what an
\* encoder that failed midway left, "other" not an image.
\* frames > 1 is an animation; rot is an EXIF orientation that swaps the
\* axes; gen counts the re-encodings that produced the content.
Content(k, w, h, f, r, m, g) ==
    [kind |-> k, w |-> w, h |-> h, frames |-> f, rot |-> r, mode |-> m, gen |-> g,
     params |-> "none"]

EmptyFile == Content("empty", 0, 0, 0, FALSE, "", 0)
PartialFile == Content("partial", 0, 0, 0, FALSE, "", 0)
CorruptFile == Content("corrupt", 0, 0, 0, FALSE, "", 0)
OtherFile == Content("other", 0, 0, 0, FALSE, "", 0)

NoImage == [w |-> 0, h |-> 0, mode |-> "", rot |-> FALSE,
            has_is_animated |-> FALSE, is_animated |-> FALSE, gen |-> 0]

(* ---- Pillow operations, as far as the program observes them ---- *)
\* Image.open(src): the image file object of the decoded content; the file
\* plugins define is_animated
ImageOpen(c) ==
    [w |-> c.w, h |-> c.h, mode |-> c.mode, rot |-> c.rot,
     has_is_animated |-> TRUE, is_animated |-> c.frames > 1, gen |-> c.gen]

\* ImageOps.exif_transpose(im): a NEW plain Image (the transposed image, or
\* im.copy() when there is no orientation); a plain Image has no
\* is_animated attribute and no orientation left
exif_transpose(i) ==
    [w |-> IF i.rot THEN i.h ELSE i.w, h |-> IF i.rot THEN i.w ELSE i.h,
     mode |-> i.mode, rot |-> FALSE,
     has_is_animated |-> FALSE, is_animated |-> FALSE, gen |-> i.gen]

\* getattr(im, "is_animated", False)
getattr_is_animated(i) == IF i.has_is_animated THEN i.is_animated ELSE FALSE

Max(a, b) == IF a >= b THEN a ELSE b

\* the halving with the division rounded up
Halve_RoundUp(d) == Max(1, (d + 1) \div 2)

\* max(1, d // 2)
Halve(d) == Max(1, d \div 2)

new_w(i) == Halve(i.w)
\* the height computed from the width
new_h_FromWidth(i) == Halve(i.w)
new_h(i) == Halve(i.h)

\* im.resize((new_w, new_h), resample=Image.LANCZOS)
resize(i, w, h) == [i EXCEPT !.w = w, !.h = h]

\* the mode conversion before saving
convert(i, ext) ==
    IF ext \in {".jpg", ".jpeg"} /\ i.mode \notin {"RGB"}
    THEN [i EXCEPT !.mode = "RGB"] ELSE i

\* save_params, by lower-cased extension
save_params(ext) ==
    IF ext \in {".jpg", ".jpeg"} THEN "optimize,quality=85,progressive"
    ELSE IF ext = ".png" THEN "optimize"
    ELSE IF ext = ".webp" THEN "quality=80,method=4"
    ELSE IF ext \in {".tif", ".tiff"} THEN "compression=tiff_lzw"
    ELSE "none"

\* the bytes a successful im_resized.save(...) leaves: one frame, no orientation
Encoded(i, ext) ==
    [kind |-> "image", w |-> i.w, h |-> i.h, frames |-> 1, rot |-> FALSE,
     mode |-> i.mode, gen |-> i.gen + 1, params |-> save_params(ext)]

\* a temp name that is not checked against the directory
TmpName_Fixed(p) == Path(p.dir, "tmp", 1, p.ext)

\* tempfile.NamedTemporaryFile(dir=src.parent, suffix=src.suffix): a name
\* that does not exist in the directory (the names are interchangeable, the
\* first free one stands for all)
TmpName(p) ==
    LET free(n) == Path(p.dir, "tmp", n, p.ext) \notin DOMAIN fs
        n == CHOOSE k \in 1..(Cardinality(DOMAIN fs) + 1) :
                 free(k) /\ \A m \in 1..(k - 1) : ~free(m)
    IN Path(p.dir, "tmp", n, p.ext)

Write(f, p, c) == [q \in DOMAIN f \cup {p} |-> IF q = p THEN c ELSE f[q]]
Remove(f, p) == [q \in DOMAIN f \ {p} |-> f[q]]

Line(k, p) == [kind |-> k, path |-> p]

(* ---- compress_image_50_percent(src) ---- *)
keepWalk == UNCHANGED <<directory, recursive, todo, listing, count, stdout,
                        exitCode, runs, attempted, fsRun, fsCall, fsFirst>>

\* the exception is reported and ends the process instead of the call
Except_Propagate == /\ stderr' = Append(stderr, Line("Error processing", src))
                    /\ outcome' = "error"
                    /\ pc' = "exited"

\* the except clause: one line on stderr, then return
Except == /\ stderr' = Append(stderr, Line("Error processing", src))
          /\ outcome' = "error"
          /\ pc' = "ret"

\* lines 33-35: open, decode, normalise the orientation, read the size
Decode ==
    /\ pc = "call"
    /\ IF is_file(src) /\ fs[src].kind = "image"
       THEN /\ im' = exif_transpose(ImageOpen(fs[src]))
            /\ pc' = "sized"
            /\ UNCHANGED <<stderr, outcome>>
       ELSE /\ Except
            /\ UNCHANGED im
    /\ UNCHANGED <<fs, src, im_resized, tmp_path>>
    /\ UNCHANGED faults
    /\ keepWalk

\* the skip taken as soon as ONE dimension is unchanged
SkipOrResize_Or ==
    /\ pc = "sized"
    /\ IF new_w(im) = im.w \/ new_h(im) = im.h
       THEN /\ outcome' = "skip"
            /\ pc' = "ret"
            /\ UNCHANGED im_resized
       ELSE /\ im_resized' = resize(im, new_w(im), new_h(im))
            /\ pc' = "mktemp"
            /\ UNCHANGED outcome
    /\ UNCHANGED <<fs, src, im, tmp_path, stderr>>
    /\ UNCHANGED faults
    /\ keepWalk

\* lines 37-44: target size, the silent skip, the resize
SkipOrResize ==
    /\ pc = "sized"
    /\ IF new_w(im) = im.w /\ new_h(im) = im.h
       THEN /\ outcome' = "skip"
            /\ pc' = "ret"
            /\ UNCHANGED im_resized
       ELSE /\ im_resized' = resize(im, new_w(im), new_h(im))
            /\ pc' = "mktemp"
            /\ UNCHANGED outcome
    /\ UNCHANGED <<fs, src, im, tmp_path, stderr>>
    /\ UNCHANGED faults
    /\ keepWalk

\* lines 47-49: the placeholder temp file next to src
MkTemp ==
    /\ pc = "mktemp"
    /\ tmp_path' = TmpName(src)
    /\ fs' = Write(fs, TmpName(src), EmptyFile)
    /\ pc' = "guard"
    /\ UNCHANGED <<src, im, im_resized, stderr, outcome>>
    /\ UNCHANGED faults
    /\ keepWalk

\* lines 71-87: the animated-GIF guard, then the mode conversion
AnimatedGuard ==
    /\ pc = "guard"
    /\ IF Lower(src.ext) = ".gif" /\ getattr_is_animated(im)
       THEN /\ fs' = IF tmp_path \in DOMAIN fs THEN Remove(fs, tmp_path) ELSE fs
            /\ stderr' = Append(stderr, Line("Skipping animated GIF", src))
            /\ outcome' = "animated"
            /\ pc' = "ret"
            /\ UNCHANGED im_resized
       ELSE /\ im_resized' = convert(im_resized, Lower(src.ext))
            /\ pc' = "save"
            /\ UNCHANGED <<fs, stderr, outcome>>
    /\ UNCHANGED <<src, im, tmp_path>>
    /\ UNCHANGED faults
    /\ keepWalk

\* the encoder writing into the source path
SaveBegin_InPlace ==
    /\ pc = "save"
    /\ fs' = Write(fs, src, PartialFile)
    /\ pc' = "saving"
    /\ UNCHANGED <<src, im, im_resized, tmp_path, stderr, outcome>>
    /\ UNCHANGED faults
    /\ keepWalk

\* line 89, first half: the encoder has opened tmp_path and is writing
SaveBegin ==
    /\ pc = "save"
    /\ fs' = Write(fs, tmp_path, PartialFile)
    /\ pc' = "saving"
    /\ UNCHANGED <<src, im, im_resized, tmp_path, stderr, outcome>>
    /\ UNCHANGED faults
    /\ keepWalk

\* line 89, second half: the encoder finishes, or raises.  When it raises,
\* Pillow leaves the partial file or removes it, depending on its version.
\* The environment makes at most MaxFaults calls raise.
SaveEnd ==
    /\ pc = "saving"
    /\ \E ok \in BOOLEAN, removed \in BOOLEAN :
          IF ok
          THEN /\ removed = FALSE
               /\ fs' = Write(fs, tmp_path, Encoded(im_resized, Lower(src.ext)))
               /\ pc' = "replace"
               /\ UNCHANGED <<stderr, outcome, faults>>
          ELSE /\ faults < MaxFaults
               /\ faults' = faults + 1
               /\ fs' = IF removed THEN Remove(fs, tmp_path) ELSE fs
               /\ Except
    /\ UNCHANGED <<src, im, im_resized, tmp_path>>
    /\ keepWalk

\* line 92: tmp_path.replace(src), one rename; it may raise
Replace ==
    /\ pc = "replace"
    /\ \E ok \in BOOLEAN :
          IF ok
          THEN /\ fs' = Remove(Write(fs, src, fs[tmp_path]), tmp_path)
               /\ outcome' = "ok"
               /\ pc' = "ret"
               /\ UNCHANGED <<stderr, faults>>
          ELSE /\ faults < MaxFaults
               /\ faults' = faults + 1
               /\ Except
               /\ UNCHANGED fs
    /\ UNCHANGED <<src, im, im_resized, tmp_path>>
    /\ keepWalk

(* ---- walk_images(root, recursive) and main() ---- *)
keepCall == UNCHANGED <<im, im_resized, tmp_path, outcome, faults>>

\* the root check with "and" for "or"
MainStart_And ==
    /\ pc = "start"
    /\ IF ~exists(directory) /\ ~is_dir(directory)
       THEN /\ stderr' = Append(stderr, Line("Not a directory", directory))
            /\ exitCode' = 1
            /\ pc' = "exited"
            /\ UNCHANGED <<todo, count>>
       ELSE /\ count' = 0
            /\ todo' = {directory}
            /\ pc' = "loop"
            /\ UNCHANGED <<stderr, exitCode>>
    /\ listing' = {}
    /\ UNCHANGED <<fs, directory, recursive, src, stdout, runs, attempted,
                   fsRun, fsCall, fsFirst>>
    /\ keepCall

\* lines 113-118: resolve and check the root, create the generator
MainStart ==
    /\ pc = "start"
    /\ IF ~exists(directory) \/ ~is_dir(directory)
       THEN /\ stderr' = Append(stderr, Line("Not a directory", directory))
            /\ exitCode' = 1
            /\ pc' = "exited"
            /\ UNCHANGED <<todo, count>>
       ELSE /\ count' = 0
            /\ todo' = {directory}
            /\ pc' = "loop"
            /\ UNCHANGED <<stderr, exitCode>>
    /\ listing' = {}
    /\ UNCHANGED <<fs, directory, recursive, src, stdout, runs, attempted,
                   fsRun, fsCall, fsFirst>>
    /\ keepCall

\* lines 99, 103: the walker reaches a directory and reads its entries; the
\* entries are read once, when the directory is reached (os.listdir /
\* list(os.scandir)), and rglob goes on into the subdirectories
WalkList ==
    /\ pc = "loop"
    /\ listing = {}
    /\ \E d \in todo :
          /\ listing' = Children(d)
          /\ todo' = (todo \ {d}) \cup
                     (IF recursive THEN {q \in DirPaths : q.dir = d.stem} ELSE {})
    /\ UNCHANGED <<fs, directory, recursive, pc, src, count, stderr, stdout,
                   exitCode, runs, attempted, fsRun, fsCall, fsFirst>>
    /\ keepCall

\* a walker that reads the directory while it is being changed: the files
\* created in the directory being walked show up among its entries
WalkNext_Lazy ==
    /\ pc = "loop"
    /\ listing # {}
    /\ LET cur == (CHOOSE x \in listing : TRUE).dir
           seen == {attempted[i] : i \in 1..Len(attempted)}
           fresh == {q \in DOMAIN fs \ DOMAIN fsRun : q.dir = cur /\ q \notin seen}
       IN \E p \in listing \cup fresh :
          /\ listing' = listing \ {p}
          /\ IF is_image_file(p)
             THEN /\ src' = p
                  /\ attempted' = Append(attempted, p)
                  /\ fsCall' = fs
                  /\ outcome' = "running"
                  /\ pc' = "call"
             ELSE UNCHANGED <<src, attempted, fsCall, outcome, pc>>
    /\ UNCHANGED <<fs, directory, recursive, todo, count, stderr, stdout,
                   exitCode, runs, fsRun, fsFirst, im, im_resized, tmp_path, faults>>

\* lines 100-101, 104-105, 119-120: the next entry, in no specified order;
\* an image file is yielded and handed to compress_image_50_percent
WalkNext ==
    /\ pc = "loop"
    /\ \E p \in listing :
          /\ listing' = listing \ {p}
          /\ IF is_image_file(p)
             THEN /\ src' = p
                  /\ attempted' = Append(attempted, p)
                  /\ fsCall' = fs
                  /\ outcome' = "running"
                  /\ pc' = "call"
             ELSE UNCHANGED <<src, attempted, fsCall, outcome, pc>>
    /\ UNCHANGED <<fs, directory, recursive, todo, count, stderr, stdout,
                   exitCode, runs, fsRun, fsFirst, im, im_resized, tmp_path, faults>>

\* line 121: the call has returned (its locals are gone) and is counted
CallReturn ==
    /\ pc = "ret"
    /\ count' = count + 1
    /\ pc' = "loop"
    /\ im' = NoImage
    /\ im_resized' = NoImage
    /\ tmp_path' = NoPath
    /\ outcome' = "none"
    /\ UNCHANGED <<fs, directory, recursive, todo, listing, src, stderr, stdout,
                   exitCode, runs, attempted, fsRun, fsCall, fsFirst, faults>>

\* line 123: the walker is exhausted; the summary, exit status 0
MainFinish ==
    /\ pc = "loop"
    /\ listing = {}
    /\ todo = {}
    /\ stdout' = Append(stdout, [kind |-> "Processed", n |-> count, path |-> directory])
    /\ exitCode' = 0
    /\ pc' = "exited"
    /\ UNCHANGED <<fs, directory, recursive, todo, listing, src, count, stderr,
                   runs, attempted, fsRun, fsCall, fsFirst>>
    /\ keepCall

\* the same command is run again on what the previous run left
Rerun ==
    /\ pc = "exited"
    /\ runs < MaxRuns
    /\ runs' = runs + 1
    /\ pc' = "start"
    /\ stderr' = <<>>
    /\ stdout' = <<>>
    /\ exitCode' = -1
    /\ count' = 0
    /\ attempted' = <<>>
    /\ fsRun' = fs
    /\ fsCall' = fs
    /\ src' = NoPath
    /\ tmp_path' = NoPath
    /\ im' = NoImage
    /\ im_resized' = NoImage
    /\ outcome' = "none"
    /\ todo' = {}
    /\ listing' = {}
    /\ UNCHANGED <<fs, directory, recursive, fsFirst, faults>>

(* ---- initial states ---- *)
InitProcess ==
    /\ pc = "start"
    /\ todo = {}
    /\ listing = {}
    /\ src = NoPath
    /\ tmp_path = NoPath
    /\ im = NoImage
    /\ im_resized = NoImage
    /\ count = 0
    /\ stderr = <<>>
    /\ stdout = <<>>
    /\ exitCode = -1
    /\ runs = 1
    /\ attempted = <<>>
    /\ outcome = "none"
    /\ fsRun = fs
    /\ fsCall = fs
    /\ fsFirst = fs
    /\ faults = 0

\* a tree with a PNG, a GIF, a text file and the partial temp file of an
\* interrupted earlier run in the root, and a greyscale JPEG in a subdirectory
Init ==
    /\ \E w \in 1..MaxDim, h \in 1..MaxDim, r \in BOOLEAN,
          g \in 1..MaxGifDim, gf \in 1..2 :
          fs = (FileA :> Content("image", w, h, 1, r, "RGBA", 0)) @@
               (FileG :> Content("image", g, g, gf, FALSE, "P", 0)) @@
               (FileN :> OtherFile) @@
               (StaleTmp :> PartialFile) @@
               (FileC :> Content("image", 2, 1, 1, FALSE, "L", 0))
    /\ directory \in {RootDir, FileN, MissingDir}
    /\ recursive \in BOOLEAN
    /\ InitProcess

step ==
    \/ MainStart
    \/ WalkList
    \/ WalkNext
    \/ Decode
    \/ SkipOrResize
    \/ MkTemp
    \/ AnimatedGuard
    \/ SaveBegin
    \/ SaveEnd
    \/ Replace
    \/ CallReturn
    \/ MainFinish

\* one invocation of the script on the tree
Next == step

Spec == Init /\ [][Next]_vars

\* a directory holding one PNG, w x w or w x 1, and the script invoked
\* without --recursive up to MaxRuns times
InitRuns ==
    /\ \E w \in 1..MaxBigDim :
       \E h \in {1, w} :
          fs = (FileA :> Content("image", w, h, 1, FALSE, "RGBA", 0))
    /\ directory = RootDir
    /\ recursive = FALSE
    /\ InitProcess

NextRuns == step \/ Rerun

SpecRuns == InitRuns /\ [][NextRuns]_vars

(* ---- vocabulary of the properties ---- *)
InCall == pc \in {"call", "sized", "mktemp", "guard", "save", "saving", "replace", "ret"}

Supported(p) == Lower(p.ext) \in SUPPORTED_EXTS

\* the size of stored content c as displayed, i.e. with its orientation applied
DisplayW(c) == IF c.rot THEN c.h ELSE c.w
DisplayH(c) == IF c.rot THEN c.w ELSE c.h

\* floor(d/2), but at least 1, stated by its arithmetic
Half(d) == IF d = 1 THEN 1 ELSE CHOOSE n \in 1..d : 2 * n <= d /\ d < 2 * n + 2

RECURSIVE HalfTimes(_, _)
HalfTimes(d, k) == IF k = 0 THEN d ELSE HalfTimes(Half(d), k - 1)

\* a complete encoded image that is c at half its displayed size
Downscaled(c, d) ==
    /\ c.kind = "image"
    /\ d.kind = "image"
    /\ d.w = Half(DisplayW(c))
    /\ d.h = Half(DisplayH(c))

\* the files under the root the walker is to yield, as the run found them
InTree(p) ==
    \/ p.dir = directory.stem
    \/ recursive /\ \E q \in DirPaths : q.dir = directory.stem /\ p.dir = q.stem
Candidates == {p \in DOMAIN fsRun : Supported(p) /\ InTree(p)}

Attempted == {attempted[i] : i \in 1..Len(attempted)}

LinesFor(p) == {i \in 1..Len(stderr) : stderr[i].path = p}

\* the files of this run's own making that are still there
OwnTemps == DOMAIN fs \ DOMAIN fsRun

(* ---- C1 ---- *)
C1_SourceIntact ==
    \A p \in DOMAIN fsRun :
        Supported(p) => /\ p \in DOMAIN fs
                        /\ \/ fs[p] = fsRun[p]
                           \/ Downscaled(fsRun[p], fs[p])

C1_OnlyRename ==
    /\ (pc \in {"save", "saving"}) =>
           \A p \in DOMAIN fs \ {tmp_path} : p \in DOMAIN fs' /\ fs'[p] = fs[p]
    /\ (InCall /\ (src \notin DOMAIN fs' \/ fs'[src] # fs[src])) =>
           /\ pc = "replace"
           /\ fs[tmp_path].kind = "image"
           /\ fs'[src] = fs[tmp_path]
           /\ tmp_path \notin DOMAIN fs'

\* C1: at every point of a run every image file holds its original bytes or
\* a complete downscaled image; the encoder writes only into the temp file,
\* and the source changes only by the one rename of a completely encoded
\* temp file.
C1_AtomicReplace == []C1_SourceIntact /\ [][C1_OnlyRename]_vars

\* the encoder raised midway: the partial output sits in the temp file and
\* the source still has its original bytes
C1_Witness ==
    /\ pc = "ret"
    /\ outcome = "error"
    /\ src = FileA
    /\ tmp_path \in DOMAIN fs
    /\ fs[tmp_path].kind = "partial"
    /\ fs[src] = fsCall[src]

(* ---- C2 ---- *)
\* C2: with a valid root, whatever failed before, every candidate is handed
\* to the transformer exactly once, and the summary prints the number of
\* candidates attempted.
C2_EveryCandidateOnce ==
    /\ \A i, j \in 1..Len(attempted) : attempted[i] = attempted[j] => i = j
    /\ InCall => count = Len(attempted) - 1
    /\ pc = "loop" => count = Len(attempted)
    /\ (pc = "exited" /\ is_dir(directory)) =>
           /\ Attempted = Candidates
           /\ stdout = <<[kind |-> "Processed", n |-> Cardinality(Candidates),
                          path |-> directory]>>

\* a finished recursive run in which three of the four candidates failed
C2_Witness ==
    /\ pc = "exited"
    /\ exitCode = 0
    /\ Len(attempted) = 4
    /\ Len(stderr) >= 3
    /\ stdout[1].n = 4

(* ---- C3 ---- *)
\* C3: once compress_image_50_percent has returned, by any path, no temp
\* file created by the call remains.
C3_NoTempAfterReturn == pc = "ret" => DOMAIN fs \subseteq DOMAIN fsCall

(* ---- C4 ---- *)
\* C4: an animated GIF larger than 1x1 is left identical, with no temp file
\* left and exactly one "Skipping animated GIF" line naming it on stderr.
C4_AnimatedGifSkipped ==
    (/\ pc = "ret"
     /\ Lower(src.ext) = ".gif"
     /\ fsCall[src].kind = "image"
     /\ fsCall[src].frames > 1
     /\ ~(DisplayW(fsCall[src]) = 1 /\ DisplayH(fsCall[src]) = 1))
    => /\ fs[src] = fsCall[src]
       /\ DOMAIN fs \subseteq DOMAIN fsCall
       /\ Cardinality(LinesFor(src)) = 1
       /\ \A i \in LinesFor(src) : stderr[i].kind = "Skipping animated GIF"

(* ---- C5 ---- *)
\* C5: a non-animated image of displayed size w x h, w >= 2 or h >= 2,
\* processed without error has size (max(1, floor(w/2)), max(1, floor(h/2)))
\* afterwards: never 0, never larger than before.
C5_HalvedSize ==
    (/\ pc = "ret"
     /\ outcome = "ok"
     /\ fsCall[src].frames = 1
     /\ (DisplayW(fsCall[src]) >= 2 \/ DisplayH(fsCall[src]) >= 2))
    => /\ Downscaled(fsCall[src], fs[src])
       /\ 1 <= fs[src].w /\ fs[src].w <= DisplayW(fsCall[src])
       /\ 1 <= fs[src].h /\ fs[src].h <= DisplayH(fsCall[src])

\* a 5x1 PNG stored rotated, i.e. displayed 1x5, has become 1x2
C5_Witness ==
    /\ pc = "ret"
    /\ outcome = "ok"
    /\ src = FileA
    /\ fsCall[src].w = 5 /\ fsCall[src].h = 1 /\ fsCall[src].rot
    /\ fs[src].w = 1 /\ fs[src].h = 2

(* ---- C6 ---- *)
\* C6: a decodable image is silently skipped exactly when it is 1x1; then
\* nothing on the filesystem changes, no temp file is ever created and
\* nothing goes to stderr; the test comes before the temp file and before
\* the animated-GIF guard.
C6_SilentSkip ==
    /\ (pc = "ret" /\ fsCall[src].kind = "image") =>
           /\ outcome = "skip" <=>
                  (DisplayW(fsCall[src]) = 1 /\ DisplayH(fsCall[src]) = 1)
           /\ outcome = "skip" => fs = fsCall /\ LinesFor(src) = {}
    /\ (pc \in {"mktemp", "guard", "save", "saving", "replace"}) =>
           /\ ~(DisplayW(fsCall[src]) = 1 /\ DisplayH(fsCall[src]) = 1)
           /\ LinesFor(src) = {}

\* an animated 1x1 GIF went the silent way, not the guard's
C6_Witness ==
    /\ pc = "ret"
    /\ outcome = "skip"
    /\ src = FileG
    /\ fsCall[src].frames > 1
    /\ fs = fsCall

(* ---- C7 ---- *)
\* C7: a root that does not exist or is no directory is reported once, the
\* exit status is 1, the walker never starts and nothing is processed or
\* modified; any other run exits with status 0.
C7_ExitStatus ==
    /\ pc # "exited" => exitCode = -1
    /\ (pc = "exited" /\ is_dir(directory)) => exitCode = 0
    /\ ~is_dir(directory) =>
           /\ pc \in {"start", "exited"}
           /\ attempted = <<>>
           /\ fs = fsRun
           /\ todo = {} /\ listing = {}
           /\ pc = "exited" => /\ exitCode = 1
                               /\ stderr = <<Line("Not a directory", directory)>>
                               /\ stdout = <<>>

\* the root is a regular file
C7_Witness ==
    /\ pc = "exited"
    /\ directory = FileN
    /\ exitCode = 1

(* ---- C8 ---- *)
\* C8: during and after a call, every path other than src that existed when
\* the call began still exists with the same content.
C8_OthersUntouched ==
    InCall => \A p \in DOMAIN fsCall \ {src} : p \in DOMAIN fs /\ fs[p] = fsCall[p]

\* a.png was replaced through a temp file that had to avoid the stale one
C8_Witness ==
    /\ pc = "ret"
    /\ outcome = "ok"
    /\ src = FileA
    /\ tmp_path = Path("root", "tmp", 2, ".png")
    /\ StaleTmp \in DOMAIN fs

(* ---- C9 ---- *)
\* C9: each successful run halves again: after k successful runs the w x h
\* image is d -> max(1, floor(d/2)) applied k times to each dimension; a run
\* on an image that is not 1x1 is not a skip and, when it succeeds, makes
\* the image smaller.
C9_NotIdempotent ==
    /\ FileA \in DOMAIN fs
    /\ fs[FileA].kind = "image"
    /\ fs[FileA].gen <= runs
    /\ fs[FileA].w = HalfTimes(fsFirst[FileA].w, fs[FileA].gen)
    /\ fs[FileA].h = HalfTimes(fsFirst[FileA].h, fs[FileA].gen)
    /\ (pc = "ret" /\ src = FileA /\ ~(fsCall[src].w = 1 /\ fsCall[src].h = 1)) =>
           /\ outcome \in {"ok", "error"}
           /\ outcome = "ok" =>
                  /\ fs[src] # fsCall[src]
                  /\ fs[src].w < fsCall[src].w \/ fs[src].h < fsCall[src].h

\* 100x100, then 50x50, now 25x25 at the end of the second run
C9_Witness ==
    /\ runs = 2
    /\ pc = "exited"
    /\ fsFirst[FileA].w = 100 /\ fsFirst[FileA].h = 100
    /\ fsRun[FileA].w = 50 /\ fsRun[FileA].h = 50
    /\ fs[FileA].w = 25 /\ fs[FileA].h = 25

(* ---- C10 ---- *)
\* C10: within a run only files that were there when the run began are
\* enumerated and handed to the transformer; the run's own temp files are
\* not, and do not add to the count.
C10_OwnTempsNotWalked ==
    /\ Attempted \subseteq DOMAIN fsRun
    /\ listing \subseteq DOMAIN fsRun \cup DirPaths
    /\ count <= Cardinality(Candidates)

\* a temp file left by a failed call lies in the directory being walked
\* while the walker still has entries to yield
C10_Witness ==
    /\ pc = "loop"
    /\ listing # {}
    /\ \E t \in OwnTemps : is_image_file(t) /\ \E p \in listing : p.dir = t.dir

====
